---- MODULE Spec2Model ----
(***************************************************************************)
(* Model of SimpleDiff.compareLineByLine (src/D.js).                       *)
(*                                                                         *)
(* The call is modelled as a state machine: Init is the state right after  *)
(* `changes = []; i = 0; j = 0` for some pair of input arrays, Iterate is  *)
(* one execution of the body of the while loop, Return is the exit of the  *)
(* loop and the `return changes`.  Indices are 0-based as in the source;   *)
(* TLA+ sequences are 1-based, so element k of an array is arr[k + 1].     *)
(***************************************************************************)
EXTENDS Integers, Sequences, FiniteSets

(* ------------------------------ bounds -------------------------------- *)

\* longest input array that is enumerated
MaxLen == 3
\* number of distinct line values that is enumerated
NumLines == 2

Alphabet == <<"a", "b", "c", "d", "e", "f">>
Lines == {Alphabet[k] : k \in 1..NumLines}

RECURSIVE SeqsOfLen(_)
SeqsOfLen(n) ==
    IF n = 0 THEN {<<>>}
    ELSE {Append(s, x) : s \in SeqsOfLen(n - 1), x \in Lines}

\* every string[] of at most MaxLen lines
LineArrays == UNION {SeqsOfLen(n) : n \in 0..MaxLen}

(* --------------------------- JavaScript values ------------------------- *)

\* the value of an out-of-range array read; it is === to no string
Undefined == "<undefined>"

\* arr[k] of JavaScript, k a 0-based index
At(arr, k) == IF k >= 0 /\ k < Len(arr) THEN arr[k + 1] ELSE Undefined

IncludesAnywhere(arr, x, fromIndex) ==
    \E k \in 0..(Len(arr) - 1) : arr[k + 1] = x

\* Array.prototype.includes(x, fromIndex) for fromIndex >= 0
Includes(arr, x, fromIndex) ==
    \E k \in fromIndex..(Len(arr) - 1) : arr[k + 1] = x

(* ----------------------------- change objects -------------------------- *)

EqualEntry(v, oi, mi) ==
    [type |-> "equal", value |-> v, originalIndex |-> oi, modifiedIndex |-> mi]

DeleteEntry(v, oi) ==
    [type |-> "delete", value |-> v, originalIndex |-> oi]

InsertEntry(v, mi) ==
    [type |-> "insert", value |-> v, modifiedIndex |-> mi]

(* --------------------------- the loop of the call ---------------------- *)
\* st is the record [i, j, changes] of the three locals of the call

LoopConditionBothInRange(o, m, st) == st.i < Len(o) /\ st.j < Len(m)

\* the condition of the while
LoopCondition(o, m, st) == st.i < Len(o) \/ st.j < Len(m)

LineIsIdenticalIgnoringValue(o, m, st) ==
    st.i < Len(o) /\ st.j < Len(m)

\* the condition of the first if
LineIsIdentical(o, m, st) ==
    At(o, st.i) = At(m, st.j) /\ st.i < Len(o) /\ st.j < Len(m)

OriginalFoundInModifiedNoLookahead(o, m, st) ==
    st.j < Len(m) /\ At(o, st.i) # Undefined

OriginalFoundInModified(o, m, st) ==
    st.j < Len(m) /\ At(o, st.i) # Undefined /\ Includes(m, At(o, st.i), st.j)

ModifiedFoundInOriginalAnywhere(o, m, st) ==
    At(m, st.j) # Undefined /\ IncludesAnywhere(o, At(m, st.j), st.i)

ModifiedFoundInOriginal(o, m, st) ==
    st.i < Len(o) /\ At(m, st.j) # Undefined /\ Includes(o, At(m, st.j), st.i)

EqualBranchKeepsJ(o, m, st) ==
    [i |-> st.i + 1, j |-> st.j,
     changes |-> Append(st.changes, EqualEntry(At(o, st.i), st.i, st.j))]

EqualBranch(o, m, st) ==
    [i |-> st.i + 1, j |-> st.j + 1,
     changes |-> Append(st.changes, EqualEntry(At(o, st.i), st.i, st.j))]

DeleteBranchAdvancesBoth(o, m, st) ==
    [i |-> st.i + 1, j |-> st.j + 1,
     changes |-> Append(st.changes, DeleteEntry(At(o, st.i), st.i))]

DeleteBranch(o, m, st) ==
    [i |-> st.i + 1, j |-> st.j,
     changes |-> Append(st.changes, DeleteEntry(At(o, st.i), st.i))]

InsertBranchAsDelete(o, m, st) ==
    [i |-> st.i, j |-> st.j + 1,
     changes |-> Append(st.changes, DeleteEntry(At(m, st.j), st.j))]

InsertBranch(o, m, st) ==
    [i |-> st.i, j |-> st.j + 1,
     changes |-> Append(st.changes, InsertEntry(At(m, st.j), st.j))]

DeleteThenInsertBranchDropsInsert(o, m, st) ==
    [i |-> st.i + 1, j |-> st.j + 1,
     changes |-> st.changes \o <<DeleteEntry(At(o, st.i), st.i)>>]

DeleteThenInsertBranch(o, m, st) ==
    [i |-> st.i + 1, j |-> st.j + 1,
     changes |-> st.changes \o <<DeleteEntry(At(o, st.i), st.i),
                                  InsertEntry(At(m, st.j), st.j)>>]

\* the two inner while loops of the last else
DrainBranch(o, m, st) ==
    [i |-> IF st.i < Len(o) THEN Len(o) ELSE st.i,
     j |-> IF st.j < Len(m) THEN Len(m) ELSE st.j,
     changes |-> st.changes
                 \o [k \in 1..(IF st.i < Len(o) THEN Len(o) - st.i ELSE 0)
                       |-> DeleteEntry(At(o, st.i + k - 1), st.i + k - 1)]
                 \o [k \in 1..(IF st.j < Len(m) THEN Len(m) - st.j ELSE 0)
                       |-> InsertEntry(At(m, st.j + k - 1), st.j + k - 1)]]

\* which branch of the body is taken in state st
Branch(o, m, st) ==
    IF LineIsIdentical(o, m, st) THEN "equal"
    ELSE IF st.i < Len(o) /\ ~OriginalFoundInModified(o, m, st) THEN "delete"
    ELSE IF st.j < Len(m) /\ ~ModifiedFoundInOriginal(o, m, st) THEN "insert"
    ELSE IF st.i < Len(o) /\ st.j < Len(m) THEN "deleteThenInsert"
    ELSE "drain"

\* one execution of the body of the while loop
LoopBody(o, m, st) ==
    CASE Branch(o, m, st) = "equal" -> EqualBranch(o, m, st)
      [] Branch(o, m, st) = "delete" -> DeleteBranch(o, m, st)
      [] Branch(o, m, st) = "insert" -> InsertBranch(o, m, st)
      [] Branch(o, m, st) = "deleteThenInsert" -> DeleteThenInsertBranch(o, m, st)
      [] OTHER -> DrainBranch(o, m, st)

InitLocals == [i |-> 0, j |-> 0, changes |-> <<>>]

RECURSIVE RunLoop(_, _, _)
RunLoop(o, m, st) ==
    IF LoopCondition(o, m, st) THEN RunLoop(o, m, LoopBody(o, m, st))
    ELSE st.changes

\* the value returned by a whole call
compareLineByLine(o, m) == RunLoop(o, m, InitLocals)

(* ------------------------------ state machine -------------------------- *)

VARIABLES originalLines, modifiedLines, i, j, changes, iterations, pc

vars == <<originalLines, modifiedLines, i, j, changes, iterations, pc>>

Locals == [i |-> i, j |-> j, changes |-> changes]

Init ==
    /\ originalLines \in LineArrays
    /\ modifiedLines \in LineArrays
    /\ i = 0
    /\ j = 0
    /\ changes = <<>>
    /\ iterations = 0
    /\ pc = "loop"

Iterate ==
    /\ pc = "loop"
    /\ LoopCondition(originalLines, modifiedLines, Locals)
    /\ LET next == LoopBody(originalLines, modifiedLines, Locals)
       IN /\ i' = next.i
          /\ j' = next.j
          /\ changes' = next.changes
    /\ iterations' = iterations + 1
    /\ UNCHANGED <<originalLines, modifiedLines, pc>>

Return ==
    /\ pc = "loop"
    /\ ~LoopCondition(originalLines, modifiedLines, Locals)
    /\ pc' = "done"
    /\ UNCHANGED <<originalLines, modifiedLines, i, j, changes, iterations>>

Next == Iterate \/ Return

Spec == Init /\ [][Next]_vars

\* the scheduling of a synchronous call: a loop that can run does run
FairSpec == Spec /\ WF_vars(Next)

(* ------------------------- vocabulary of the properties ---------------- *)

A == originalLines
B == modifiedLines

OfTypes(script, types) == SelectSeq(script, LAMBDA e : e.type \in types)

CountOf(script, types) == Len(OfTypes(script, types))

EqualPairs(script) ==
    {<<script[k].originalIndex, script[k].modifiedIndex>> :
        k \in {n \in 1..Len(script) : script[n].type = "equal"}}

DeletedIndices(script) ==
    {script[k].originalIndex :
        k \in {n \in 1..Len(script) : script[n].type = "delete"}}

InsertedIndices(script) ==
    {script[k].modifiedIndex :
        k \in {n \in 1..Len(script) : script[n].type = "insert"}}

Range(s) == {s[k] : k \in 1..Len(s)}

Max(x, y) == IF x >= y THEN x ELSE y

\* length of a longest common subsequence of the first n lines of s and the
\* first k lines of t
RECURSIVE LCSLength(_, _, _, _)
LCSLength(s, n, t, k) ==
    IF n = 0 \/ k = 0 THEN 0
    ELSE IF s[n] = t[k] THEN 1 + LCSLength(s, n - 1, t, k - 1)
    ELSE Max(LCSLength(s, n - 1, t, k), LCSLength(s, n, t, k - 1))

LCS == LCSLength(A, Len(A), B, Len(B))

(* --------------------------------- C1 ---------------------------------- *)

\* C1 (Reconstruction): in the returned script the equal and delete entries,
\* in script order, have originalIndex 0..|A|-1 and the values of A, and the
\* equal and insert entries, in script order, have modifiedIndex 0..|B|-1 and
\* the values of B.
Reconstruction ==
    pc = "done" =>
        LET os == OfTypes(changes, {"equal", "delete"})
            ms == OfTypes(changes, {"equal", "insert"})
        IN /\ Len(os) = Len(A)
           /\ \A k \in 1..Len(os) :
                 os[k].originalIndex = k - 1 /\ os[k].value = A[k]
           /\ Len(ms) = Len(B)
           /\ \A k \in 1..Len(ms) :
                 ms[k].modifiedIndex = k - 1 /\ ms[k].value = B[k]

\* a returned script that holds all three kinds of entry, one fallback pair
\* among them
ReconstructionWitness ==
    /\ pc = "done"
    /\ CountOf(changes, {"equal"}) > 0
    /\ Len(changes) > iterations
    /\ CountOf(changes, {"delete"}) > 1

(* --------------------------------- C2 ---------------------------------- *)

\* C2 (Minimality): the number of delete and insert entries of the
\* returned script is |A| + |B| - 2 * LCS_length(A, B).
Minimality ==
    pc = "done" =>
        CountOf(changes, {"delete", "insert"}) = Len(A) + Len(B) - 2 * LCS

(* --------------------------------- C3 ---------------------------------- *)

\* C3 (Identity): compareLineByLine(A, A) is exactly |A| equal entries, the
\* k-th with originalIndex = modifiedIndex = k and value A[k].
Identity ==
    (pc = "done" /\ A = B) =>
        changes = [k \in 1..Len(A) |-> EqualEntry(A[k], k - 1, k - 1)]

\* a finished comparison of an array that repeats a line with itself
IdentityWitness ==
    /\ pc = "done"
    /\ A = B
    /\ Len(A) >= 3
    /\ A[1] = A[3]
    /\ A[1] # A[2]
    /\ Len(changes) = Len(A)

(* --------------------------------- C4 ---------------------------------- *)

\* C4 (Totality): every iteration of the loop strictly increases i + j, i
\* never exceeds |A| and j never exceeds |B|, the loop runs at most
\* |A| + |B| times, and the call returns, with i = |A| and j = |B|.
Totality ==
    /\ [](/\ i <= Len(A)
          /\ j <= Len(B)
          /\ iterations <= Len(A) + Len(B)
          /\ (pc = "done" => i = Len(A) /\ j = Len(B)))
    /\ [][iterations' # iterations => i' + j' > i + j]_vars
    /\ <>(pc = "done")

\* a call on two non-empty arrays that returned after running the loop
TotalityWitness ==
    /\ pc = "done"
    /\ Len(A) > 0
    /\ Len(B) > 0
    /\ iterations > 1
    /\ iterations < Len(A) + Len(B)

(* --------------------------------- C5 ---------------------------------- *)

\* C5 (Presentation order): in the returned script no insert
\* entry is immediately followed by a delete entry.
DeleteBeforeInsert ==
    pc = "done" =>
        \A k \in 1..(Len(changes) - 1) :
            ~(changes[k].type = "insert" /\ changes[k + 1].type = "delete")

(* --------------------------------- C6 ---------------------------------- *)

\* C6 (Symmetry): compareLineByLine(A, B) with insert and delete swapped and
\* originalIndex and modifiedIndex swapped has the same equal index pairs,
\* the same deleted indices and the same inserted indices as
\* compareLineByLine(B, A).
Symmetry ==
    pc = "done" =>
        LET reverse == compareLineByLine(B, A)
        IN /\ {<<p[2], p[1]>> : p \in EqualPairs(changes)} = EqualPairs(reverse)
           /\ InsertedIndices(changes) = DeletedIndices(reverse)
           /\ DeletedIndices(changes) = InsertedIndices(reverse)

\* a returned script of two different arrays with all three kinds of entry
SymmetryWitness ==
    /\ pc = "done"
    /\ A # B
    /\ EqualPairs(changes) # {}
    /\ DeletedIndices(changes) # {}
    /\ InsertedIndices(changes) # {}
    /\ \E p \in EqualPairs(changes) : p[1] # p[2]

(* --------------------------------- C7 ---------------------------------- *)

\* C7 (Empty inputs): compareLineByLine([], []) is empty,
\* compareLineByLine([], B) is the inserts of B[0..|B|-1] in order and
\* compareLineByLine(A, []) is the deletes of A[0..|A|-1] in order.
EmptyInputs ==
    pc = "done" =>
        /\ (A = <<>> =>
               changes = [k \in 1..Len(B) |-> InsertEntry(B[k], k - 1)])
        /\ (B = <<>> =>
               changes = [k \in 1..Len(A) |-> DeleteEntry(A[k], k - 1)])
        /\ (A = <<>> /\ B = <<>> => changes = <<>>)

\* a finished comparison of the empty array with an array of several lines
EmptyInputsWitness ==
    /\ pc = "done"
    /\ A = <<>>
    /\ Len(B) >= 2
    /\ Len(changes) = Len(B)

(* --------------------------------- C8 ---------------------------------- *)

\* C8 (Disjoint inputs): when A and B share no line value the returned
\* script is the deletes of A[0..|A|-1] in order followed by the inserts of
\* B[0..|B|-1] in order.
DisjointInputs ==
    (pc = "done" /\ Range(A) \cap Range(B) = {}) =>
        changes = [k \in 1..Len(A) |-> DeleteEntry(A[k], k - 1)]
                  \o [k \in 1..Len(B) |-> InsertEntry(B[k], k - 1)]

\* a finished comparison of two arrays of several lines that share none
DisjointInputsWitness ==
    /\ pc = "done"
    /\ Range(A) \cap Range(B) = {}
    /\ Len(A) >= 2
    /\ Len(B) >= 2
    /\ Len(changes) = Len(A) + Len(B)

(* --------------------------------- C9 ---------------------------------- *)

\* C9 (Entry well-formedness): every entry is an equal, insert or delete;
\* an equal entry has both indices in range and value A[originalIndex] =
\* B[modifiedIndex]; a delete entry has originalIndex in range and value
\* A[originalIndex]; an insert entry has modifiedIndex in range and value
\* B[modifiedIndex].
WellFormedEntries ==
    \A k \in 1..Len(changes) :
        LET e == changes[k]
        IN /\ e.type \in {"equal", "insert", "delete"}
           /\ e.type = "equal" =>
                 /\ DOMAIN e = {"type", "value", "originalIndex", "modifiedIndex"}
                 /\ e.originalIndex \in 0..(Len(A) - 1)
                 /\ e.modifiedIndex \in 0..(Len(B) - 1)
                 /\ e.value = A[e.originalIndex + 1]
                 /\ e.value = B[e.modifiedIndex + 1]
           /\ e.type = "delete" =>
                 /\ DOMAIN e = {"type", "value", "originalIndex"}
                 /\ e.originalIndex \in 0..(Len(A) - 1)
                 /\ e.value = A[e.originalIndex + 1]
           /\ e.type = "insert" =>
                 /\ DOMAIN e = {"type", "value", "modifiedIndex"}
                 /\ e.modifiedIndex \in 0..(Len(B) - 1)
                 /\ e.value = B[e.modifiedIndex + 1]

\* a returned script with an equal entry at two different indices, a delete
\* and an insert
WellFormedEntriesWitness ==
    /\ pc = "done"
    /\ \E p \in EqualPairs(changes) : p[1] > p[2]
    /\ DeletedIndices(changes) # {}
    /\ InsertedIndices(changes) # {}

(* --------------------------------- C10 --------------------------------- *)

\* the condition C10 gives for the fallback, on the pointer state (i, j)
FallbackCondition ==
    /\ i < Len(A)
    /\ j < Len(B)
    /\ A[i + 1] # B[j + 1]
    /\ \E k \in (j + 1)..(Len(B) - 1) : B[k + 1] = A[i + 1]
    /\ \E k \in (i + 1)..(Len(A) - 1) : A[k + 1] = B[j + 1]

\* a non-equal state: the loop runs and the lines at (i, j) are not paired
NonEqualState ==
    /\ pc = "loop"
    /\ (i < Len(A) \/ j < Len(B))
    /\ ~(i < Len(A) /\ j < Len(B) /\ A[i + 1] = B[j + 1])

\* C10 (Firing condition of the fallback): an iteration emits a delete of
\* A[i] immediately followed by an insert of B[j] and advances both pointers
\* if and only if i < |A|, j < |B|, A[i] # B[j], A[i] occurs in B after j
\* and B[j] occurs in A after i; every other iteration in a non-equal state
\* advances exactly one pointer and emits exactly one entry.
FallbackFiring ==
    [][iterations' # iterations =>
          /\ FallbackCondition <=>
                /\ i' = i + 1
                /\ j' = j + 1
                /\ changes' = changes \o <<DeleteEntry(A[i + 1], i),
                                           InsertEntry(B[j + 1], j)>>
          /\ (NonEqualState /\ ~FallbackCondition) =>
                /\ Len(changes') = Len(changes) + 1
                /\ changes'[Len(changes')].type \in {"delete", "insert"}
                /\ \/ (i' = i + 1 /\ j' = j)
                   \/ (i' = i /\ j' = j + 1)]_vars

\* the fallback has just fired at a pointer state that is not the start
FallbackFiringWitness ==
    /\ pc = "loop"
    /\ iterations > 1
    /\ i > 1
    /\ j > 1
    /\ Len(changes) >= 2
    /\ changes[Len(changes) - 1] = DeleteEntry(A[i], i - 1)
    /\ changes[Len(changes)] = InsertEntry(B[j], j - 1)
    /\ \E k \in (j + 1)..Len(B) : B[k] = A[i]
    /\ \E k \in (i + 1)..Len(A) : A[k] = B[j]

(* --------------------------------- C11 --------------------------------- *)

\* C11 (The drain branch is unreachable): no iteration of the loop takes the
\* final else; an iteration entered with i >= |A| emits the single insert of
\* B[j] and advances j only, and an iteration entered with j >= |B| emits
\* the single delete of A[i] and advances i only.
DrainUnreachable ==
    [][iterations' # iterations =>
          /\ Branch(A, B, Locals) # "drain"
          /\ i >= Len(A) =>
                /\ Branch(A, B, Locals) = "insert"
                /\ changes' = Append(changes, InsertEntry(B[j + 1], j))
                /\ i' = i
                /\ j' = j + 1
          /\ j >= Len(B) =>
                /\ Branch(A, B, Locals) = "delete"
                /\ changes' = Append(changes, DeleteEntry(A[i + 1], i))
                /\ i' = i + 1
                /\ j' = j]_vars

\* the loop has just emitted a remainder line of B with A exhausted, after
\* consuming all of a non-empty A, and more of B remains
DrainUnreachableWitness ==
    /\ pc = "loop"
    /\ Len(A) > 0
    /\ i = Len(A)
    /\ j > 1
    /\ j < Len(B)
    /\ changes[Len(changes)] = InsertEntry(B[j], j - 1)
    /\ changes[Len(changes) - 1] = InsertEntry(B[j - 1], j - 2)
    /\ CountOf(changes, {"equal", "delete"}) = Len(A)

====
